---- MODULE Spec2Model ----
(***************************************************************************)
(* Model of the conversation orchestrator of src/index.tsx (component App). *)
(*                                                                         *)
(* React state is held in the variables named after the useState hooks.    *)
(* A setter takes effect on the variable at once; what a closure sees is   *)
(* the value of the render that created the closure:                       *)
(*   rendered  - the values of the last committed render (the onClick      *)
(*               handlers and the disabled attributes of the buttons),     *)
(*   handlers  - the values captured by the recognition listeners, which   *)
(*               the effect of lines 100-157 re-registers only when        *)
(*               isListening or mode changed between two renders.          *)
(* Updates made in a click handler are rendered, and their effects run,    *)
(* before the handler's event ends (React 18 discrete events); updates     *)
(* made in a recognition listener, a promise continuation or a media       *)
(* callback are rendered later, by the step Render.                        *)
(*                                                                         *)
(* The unmount cleanup of lines 89-96 never runs: the root created at      *)
(* lines 427-429 is never unmounted.  interimTranscript, the scroll        *)
(* effect and the play/download/delete handlers of the recordings panel    *)
(* are presentation state and are not modelled.                            *)
(***************************************************************************)
EXTENDS Integers, Sequences, FiniteSets, TLC

\* ---------------------------------------------------------------- bounds
MaxStarts == 2       \* microphone streams acquired or being acquired
MaxLog == 2          \* entries of the transcript
MaxClock == 1        \* readings of Date.now() are 0..MaxClock
MaxDropped == 1      \* final results that handleTranslation drops
SessionMaxLog == 1   \* entries of the transcript under SpecSession
TranscriptMaxStarts == 1   \* streams under SpecTranscript and SpecFinals

\* the bounds of one specification: streams, entries, dropped final results
SessionBounds == [starts |-> MaxStarts, log |-> SessionMaxLog, dropped |-> 0]
TranscriptBounds == [starts |-> TranscriptMaxStarts, log |-> MaxLog, dropped |-> 0]
FinalsBounds ==
    [starts |-> TranscriptMaxStarts, log |-> MaxLog, dropped |-> MaxDropped]
TurnTakingBounds == [starts |-> MaxStarts, log |-> MaxLog, dropped |-> 0]
CompletionBounds ==
    [starts |-> TranscriptMaxStarts, log |-> MaxLog, dropped |-> 0]

\* ------------------------------------------------------------- constants
Null == "null"
Language == {"ja-JP", "zh-TW"}
Mode == {"turn-taking", "continuous"}
ErrorKinds == {"no-speech", "network", "audio-capture"}
FailedPlaceholder == "Translation failed."
TranslateErrorMsg == "Failed to translate text."
MicErrorMsg == "Could not start microphone"
ApiKeyErrorMsg == "API_KEY environment variable not set."

\* what is said: the n-th utterance that reaches the transcript is Words[n],
\* so that every entry is told from the others by its text
Words == <<"A", "B", "C", "D">>
\* transcripts the engine can deliver for the word w, as sequences of characters
RawTranscripts(w) == {<<w>>, <<" ", w, " ">>, <<" ">>}
SpeechResults(w) == [isFinal : BOOLEAN, transcript : RawTranscripts(w)]
\* the results of one 'result' event, from event.resultIndex on: one result,
\* or an interim result followed by a final one
SpeechEvents(w) ==
    {<<r>> : r \in SpeechResults(w)}
        \cup {<<[isFinal |-> FALSE, transcript |-> <<w>>],
                [isFinal |-> TRUE, transcript |-> <<" ", w, " ">>]>>}

StreamIds == 1..MaxStarts

VARIABLES
    isListening, currentLang, mode, log, error, isTranslating, recordings,
    rendered, handlers,
    intentionalStop, mediaRecorderRef, streamRef,
    recState, recLang,
    pendingStarts, nAcquired, trackStops, recorderState,
    pendingOnStop, pendingMeta,
    inflight, now, aiReady,
    nFinal, nSuccess

reactVars == <<isListening, currentLang, mode, log, error, isTranslating, recordings>>
closureVars == <<rendered, handlers>>
refVars == <<intentionalStop, mediaRecorderRef, streamRef>>
engineVars == <<recState, recLang>>
mediaVars == <<pendingStarts, nAcquired, trackStops, recorderState,
               pendingOnStop, pendingMeta>>
\* history: the result events delivered with a final result, and the
\* translations that succeeded
histVars == <<nFinal, nSuccess>>
vars == <<reactVars, closureVars, refVars, engineVars, mediaVars,
          inflight, now, aiReady, histVars>>

\* ------------------------------------------------------- pure functions
ToggleLang(l) == IF l = "ja-JP" THEN "zh-TW" ELSE "ja-JP"
ToggleMode(m) == IF m = "turn-taking" THEN "continuous" ELSE "turn-taking"

RECURSIVE TrimStart(_)
TrimStart(s) == IF s # <<>> /\ Head(s) = " " THEN TrimStart(Tail(s)) ELSE s

RECURSIVE TrimEnd(_)
TrimEnd(s) == IF s # <<>> /\ s[Len(s)] = " "
              THEN TrimEnd(SubSeq(s, 1, Len(s) - 1)) ELSE s

\* String.prototype.trim
Trim(s) == TrimEnd(TrimStart(s))

\* the loop of handleResult: concatenation of the final results' transcripts
RECURSIVE FinalTranscript(_)
FinalTranscript(ev) ==
    IF ev = <<>> THEN <<>>
    ELSE (IF Head(ev).isFinal THEN Head(ev).transcript ELSE <<>>)
         \o FinalTranscript(Tail(ev))

\* values of LogEntry.translated: null, response.text of the translation of
\* text from lang, and the placeholder of the catch block
NullText == <<"null">>
Translated(text, lang) == <<"tr", lang>> \o text
FailedText == <<FailedPlaceholder>>

RecognitionErrorMsg(kind) == "Speech recognition error: " \o kind

\* a listener that ignores no kind of error
IgnoresNoError(kind) == FALSE

\* the test of line 123: handleError returns at once on "no-speech"
IgnoredError(kind) == kind = "no-speech"

\* the snapshot a render takes of the state
RenderOf(l, c, m, t) ==
    [isListening |-> l, currentLang |-> c, mode |-> m, isTranslating |-> t]

\* an effect whose dependencies are [mode] alone
EffectOnModeOnly(h, r) ==
    IF h.mode # r.mode
    THEN [isListening |-> r.isListening, mode |-> r.mode,
          currentLang |-> r.currentLang]
    ELSE h

\* the effect with dependencies [isListening, mode]: new listeners are
\* registered only when a dependency differs from the previous render
EffectOf(h, r) ==
    IF h.isListening # r.isListening \/ h.mode # r.mode
    THEN [isListening |-> r.isListening, mode |-> r.mode,
          currentLang |-> r.currentLang]
    ELSE h

\* recognition.stop(): asks a running session to end, else does nothing
RecognitionStop(s) == IF s = "running" THEN "stopping" ELSE s

\* the guard of mediaRecorderRef.current.stop() in stopListeningAndRecording
ShouldStopRecorder(ref, st) == ref # 0 /\ st[ref] = "recording"

\* recognition.start() throws InvalidStateError unless the engine is idle
RecognitionStartThrows(s) == s # "idle"

\* MediaStreamTrack.stop() on every track of stream s
StopTracks(ts, s) == [ts EXCEPT ![s] = @ + 1]

\* the id a new LogEntry takes: Date.now(), clock being the reading
NewId(clock) == clock

\* an update that writes no entry
KeepLog(lg, id, t) == lg

\* setLog(prev => prev.map(e => e.id === id ? {...e, translated: t} : e))
SetTranslated(lg, id, t) ==
    [i \in 1..Len(lg) |->
        IF lg[i].id = id THEN [lg[i] EXCEPT !.translated = t] ELSE lg[i]]

\* a language update computed from the currentLang the closure captured
NextLangFromClosure(prev, captured, m) ==
    IF m = "turn-taking" THEN ToggleLang(captured) ELSE prev

\* lines 194-196: in turn-taking mode, setCurrentLang(prevLang => the other
\* language), prev being the state at the update, captured the closure's
NextLang(prev, captured, m) ==
    IF m = "turn-taking" THEN ToggleLang(prev) ELSE prev

\* a transcript that puts the new entry first
PrependEntry(lg, e) == <<e>> \o lg

\* setLog(prevLog => [...prevLog, newEntry])
AppendEntry(lg, e) == Append(lg, e)

TypeOK ==
    /\ isListening \in BOOLEAN
    /\ currentLang \in Language
    /\ mode \in Mode
    /\ isTranslating \in BOOLEAN
    /\ intentionalStop \in BOOLEAN
    /\ mediaRecorderRef \in 0..MaxStarts
    /\ streamRef \in 0..MaxStarts
    /\ recState \in {"idle", "running", "stopping", "ended"}
    /\ recLang \in Language \cup {Null}
    /\ nAcquired \in 0..MaxStarts
    /\ now \in 0..MaxClock
    /\ Len(log) <= MaxLog

Init ==
    /\ aiReady \in BOOLEAN
    /\ isListening = FALSE
    /\ currentLang = "ja-JP"
    /\ mode = "turn-taking"
    /\ log = <<>>
    /\ error = IF aiReady THEN Null ELSE ApiKeyErrorMsg
    /\ isTranslating = FALSE
    /\ recordings = <<>>
    /\ rendered = RenderOf(FALSE, "ja-JP", "turn-taking", FALSE)
    /\ handlers = [isListening |-> FALSE, mode |-> "turn-taking",
                   currentLang |-> "ja-JP"]
    /\ intentionalStop = FALSE
    /\ mediaRecorderRef = 0
    /\ streamRef = 0
    /\ recState = "idle"
    /\ recLang = Null
    /\ pendingStarts = [l \in Language |-> 0]
    /\ nAcquired = 0
    /\ trackStops = [s \in StreamIds |-> 0]
    /\ recorderState = [s \in StreamIds |-> "none"]
    /\ pendingOnStop = {}
    /\ pendingMeta = {}
    /\ inflight = {}
    /\ now = 0
    /\ nFinal = 0
    /\ nSuccess = 0

\* ------------------------------------------------------------- actions
\* a render committed inside a click event, with its effects
CommitSync ==
    /\ rendered' = RenderOf(isListening', currentLang', mode', isTranslating')
    /\ handlers' = EffectOf(handlers, rendered')

\* stopListeningAndRecording (262-271), rs being the engine's state at the call
StopListeningAndRecording(rs) ==
    /\ recState' = RecognitionStop(rs)
    /\ IF ShouldStopRecorder(mediaRecorderRef, recorderState)
       THEN /\ recorderState' = [recorderState EXCEPT ![mediaRecorderRef] = "inactive"]
            /\ pendingOnStop' = pendingOnStop \cup {mediaRecorderRef}
       ELSE UNCHANGED <<recorderState, pendingOnStop>>
    /\ isListening' = FALSE
    /\ intentionalStop' = FALSE

\* the getUserMedia promises not yet settled
PendingCount == pendingStarts["ja-JP"] + pendingStarts["zh-TW"]

\* handleListenToggle (274-281), the mic button's onClick; the stop branch
\* sets intentionalStop and stopListeningAndRecording resets it; the start
\* branch runs startListeningAndRecording up to its await (209-212)
HandleListenToggle(b) ==
    /\ ~rendered.isTranslating
    /\ IF rendered.isListening
       THEN /\ StopListeningAndRecording(recState)
            /\ UNCHANGED pendingStarts
       ELSE /\ nAcquired + PendingCount < b.starts
            /\ pendingStarts' = [pendingStarts EXCEPT ![rendered.currentLang] = @ + 1]
            /\ UNCHANGED <<recState, recorderState, pendingOnStop, isListening,
                           intentionalStop>>
    /\ UNCHANGED <<currentLang, mode, log, error, isTranslating, recordings,
                   mediaRecorderRef, streamRef, recLang, nAcquired, trackStops,
                   pendingMeta, inflight, now, aiReady, histVars>>
    /\ CommitSync

\* startListeningAndRecording after its await resolved (213-254, catch
\* 256-259); lang is the currentLang its closure captured; fail names the
\* statement that throws: the MediaRecorder constructor, its start(), or none
\* of the two (recognition.start() throws by the engine's state)
GetUserMediaResolve(lang, fail) ==
    /\ pendingStarts[lang] > 0
    /\ pendingStarts' = [pendingStarts EXCEPT ![lang] = @ - 1]
    /\ LET s == nAcquired + 1 IN
       /\ nAcquired' = s
       /\ streamRef' = s
       /\ IF fail = "constructor"
          THEN /\ error' = MicErrorMsg
               /\ UNCHANGED <<mediaRecorderRef, recorderState, intentionalStop,
                              recLang, recState, isListening>>
          ELSE /\ mediaRecorderRef' = s
               /\ IF fail = "start"
                  THEN /\ recorderState' = [recorderState EXCEPT ![s] = "inactive"]
                       /\ error' = MicErrorMsg
                       /\ UNCHANGED <<intentionalStop, recLang, recState, isListening>>
                  ELSE /\ recorderState' = [recorderState EXCEPT ![s] = "recording"]
                       /\ intentionalStop' = FALSE
                       /\ recLang' = lang
                       /\ IF RecognitionStartThrows(recState)
                          THEN /\ error' = MicErrorMsg
                               /\ UNCHANGED <<recState, isListening>>
                          ELSE /\ recState' = "running"
                               /\ isListening' = TRUE
                               /\ error' = Null
    /\ UNCHANGED <<currentLang, mode, log, isTranslating, recordings, closureVars,
                   trackStops, pendingOnStop, pendingMeta, inflight, now,
                   aiReady, histVars>>

\* getUserMedia rejected: the catch block (256-259)
GetUserMediaReject(lang) ==
    /\ pendingStarts[lang] > 0
    /\ pendingStarts' = [pendingStarts EXCEPT ![lang] = @ - 1]
    /\ error' = MicErrorMsg
    /\ UNCHANGED <<isListening, currentLang, mode, log, isTranslating, recordings,
                   closureVars, refVars, engineVars, nAcquired, trackStops,
                   recorderState, pendingOnStop, pendingMeta, inflight, now, aiReady,
                   histVars>>

\* the language button's onClick (374-378)
ClickLanguageToggle ==
    /\ ~rendered.isListening
    /\ currentLang' = ToggleLang(currentLang)
    /\ UNCHANGED <<isListening, mode, isTranslating>>
    /\ UNCHANGED <<log, error, recordings, refVars, engineVars, mediaVars, inflight,
                   now, aiReady, histVars>>
    /\ CommitSync

\* the mode switch's onClick (411-415)
ClickModeToggle ==
    /\ ~rendered.isListening
    /\ mode' = ToggleMode(mode)
    /\ UNCHANGED <<isListening, currentLang, isTranslating>>
    /\ UNCHANGED <<log, error, recordings, refVars, engineVars, mediaVars, inflight,
                   now, aiReady, histVars>>
    /\ CommitSync

\* a render scheduled by updates made outside a click, with its effects
Render ==
    /\ rendered # RenderOf(isListening, currentLang, mode, isTranslating)
    /\ rendered' = RenderOf(isListening, currentLang, mode, isTranslating)
    /\ handlers' = EffectOf(handlers, rendered')
    /\ UNCHANGED <<reactVars, refVars, engineVars, mediaVars, inflight, now, aiReady,
                   histVars>>

\* handleTranslation up to its await (163-183), as the closure the
\* registered handleResult holds: currentLang and mode are the captured
\* ones; t is the reading of Date.now().  The request in flight is kept as
\* the position of its newEntry in log (whose id, original and lang never
\* change) and the mode its closure captured
HandleTranslation(text, t, b) ==
    IF text = <<>> \/ ~aiReady
    THEN /\ nFinal - Len(log) < b.dropped
         /\ UNCHANGED <<log, isTranslating, inflight, now>>
    ELSE /\ Len(log) < b.log
         /\ now' = t
         /\ log' = AppendEntry(log, [id |-> NewId(t), original |-> text,
                                     translated |-> NullText,
                                     lang |-> handlers.currentLang])
         /\ isTranslating' = TRUE
         /\ inflight' = inflight \cup {[entry |-> Len(log) + 1,
                                        mode |-> handlers.mode]}

\* the 'result' listener handleResult (103-119); the clock never runs
\* backwards between two readings
EngineResult(ev, t, b) ==
    /\ recState \in {"running", "stopping"}
    /\ t >= now
    /\ LET finalTranscript == FinalTranscript(ev) IN
       IF finalTranscript # <<>>
       THEN /\ nFinal' = nFinal + 1
            /\ HandleTranslation(Trim(finalTranscript), t, b)
       ELSE UNCHANGED <<log, isTranslating, inflight, now, nFinal>>
    /\ UNCHANGED <<isListening, currentLang, mode, error, recordings, closureVars,
                   refVars, engineVars, mediaVars, aiReady, nSuccess>>

\* the translation request req resolved (188-196, finally 204-206)
TranslationResolve(req) ==
    /\ req \in inflight
    /\ LET newEntry == log[req.entry] IN
       log' = SetTranslated(log, newEntry.id,
                            Translated(newEntry.original, newEntry.lang))
    /\ currentLang' = NextLang(currentLang, log[req.entry].lang, req.mode)
    /\ isTranslating' = FALSE
    /\ inflight' = inflight \ {req}
    /\ nSuccess' = nSuccess + 1
    /\ UNCHANGED <<isListening, mode, error, recordings, closureVars, refVars,
                   engineVars, mediaVars, now, aiReady, nFinal>>

\* the translation request req rejected (198-206)
TranslationReject(req) ==
    /\ req \in inflight
    /\ error' = TranslateErrorMsg
    /\ log' = SetTranslated(log, log[req.entry].id, FailedText)
    /\ isTranslating' = FALSE
    /\ inflight' = inflight \ {req}
    /\ UNCHANGED <<isListening, currentLang, mode, recordings, closureVars, refVars,
                   engineVars, mediaVars, now, aiReady, histVars>>

\* the 'error' listener handleError (121-128); the engine has given the
\* session up and its 'end' event follows
EngineError(kind) ==
    /\ recState \in {"running", "stopping"}
    /\ LET rs == IF recState = "running" THEN "ended" ELSE recState IN
       IF IgnoredError(kind)
       THEN /\ recState' = rs
            /\ UNCHANGED <<error, recorderState, pendingOnStop, isListening,
                           intentionalStop>>
       ELSE /\ error' = RecognitionErrorMsg(kind)
            /\ StopListeningAndRecording(rs)
    /\ UNCHANGED <<currentLang, mode, log, isTranslating, recordings, closureVars,
                   mediaRecorderRef, streamRef, recLang, pendingStarts,
                   nAcquired, trackStops, pendingMeta, inflight, now, aiReady,
                   histVars>>

\* the 'end' listener handleEnd (130-146); the session is over when it runs
EngineEnd ==
    /\ recState \in {"running", "stopping", "ended"}
    /\ IF intentionalStop
       THEN StopListeningAndRecording("idle")
       ELSE IF handlers.isListening /\ handlers.mode = "continuous"
            THEN IF RecognitionStartThrows("idle")
                 THEN StopListeningAndRecording("idle")
                 ELSE /\ recState' = "running"
                      /\ UNCHANGED <<recorderState, pendingOnStop, isListening,
                                     intentionalStop>>
            ELSE StopListeningAndRecording("idle")
    /\ UNCHANGED <<currentLang, mode, log, error, isTranslating, recordings,
                   closureVars, mediaRecorderRef, streamRef, recLang, pendingStarts,
                   nAcquired, trackStops, pendingMeta, inflight, now, aiReady,
                   histVars>>

\* recorder r's 'stop' event: the onstop callback (222-247).  It releases the
\* stream streamRef holds at that moment; a recorder whose stream loses all
\* its tracks stops by itself
RecorderOnStop(r) ==
    /\ r \in pendingOnStop
    /\ pendingMeta' = pendingMeta \cup {r}
    /\ IF streamRef # 0
       THEN /\ trackStops' = StopTracks(trackStops, streamRef)
            /\ streamRef' = 0
            /\ IF recorderState[streamRef] = "recording"
               THEN /\ recorderState' = [recorderState EXCEPT ![streamRef] = "inactive"]
                    /\ pendingOnStop' = (pendingOnStop \ {r}) \cup {streamRef}
               ELSE /\ pendingOnStop' = pendingOnStop \ {r}
                    /\ UNCHANGED recorderState
       ELSE /\ pendingOnStop' = pendingOnStop \ {r}
            /\ UNCHANGED <<trackStops, streamRef, recorderState>>
    /\ UNCHANGED <<reactVars, closureVars, intentionalStop, mediaRecorderRef,
                   engineVars, pendingStarts, nAcquired, inflight, now,
                   aiReady, histVars>>

\* the clip's metadata loaded: onloadedmetadata (228-240); a Recording is
\* kept as the recorder its blob comes from
MetadataLoaded(r) ==
    /\ r \in pendingMeta
    /\ pendingMeta' = pendingMeta \ {r}
    /\ recordings' = Append(recordings, r)
    /\ UNCHANGED <<isListening, currentLang, mode, log, error, isTranslating,
                   closureVars, refVars, engineVars, pendingStarts, nAcquired,
                   trackStops, recorderState, pendingOnStop, inflight, now, aiReady,
                   histVars>>

Requests == [entry : 1..MaxLog, mode : Mode]

\* the steps of the program but the clicks on the language button and on
\* the mode switch, within the bounds b
NextTurnTaking(b) ==
    \/ HandleListenToggle(b)
    \/ \E lang \in Language, fail \in {"none", "constructor", "start"} :
          GetUserMediaResolve(lang, fail)
    \/ \E lang \in Language : GetUserMediaReject(lang)
    \/ Render
    \/ \E ev \in SpeechEvents(Words[Len(log) + 1]), t \in 0..MaxClock :
          EngineResult(ev, t, b)
    \/ \E req \in Requests : TranslationResolve(req)
    \/ \E req \in Requests : TranslationReject(req)
    \/ \E kind \in ErrorKinds : EngineError(kind)
    \/ EngineEnd
    \/ \E r \in StreamIds : RecorderOnStop(r)
    \/ \E r \in StreamIds : MetadataLoaded(r)

Next(b) ==
    \/ NextTurnTaking(b)
    \/ ClickLanguageToggle
    \/ ClickModeToggle

\* ------------------------------------------------------------ properties
Streams == 1..nAcquired
LiveStreams == {s \in Streams : trackStops[s] = 0}
Quiescent == ~isListening /\ PendingCount = 0 /\ pendingOnStop = {}

\* C1: once the orchestrator is Idle with no start and no recorder finalize
\* pending, every microphone stream that was acquired has been released, and
\* released exactly once (acquisitions equal releases).
ResourceBalance == Quiescent => \A s \in Streams : trackStops[s] = 1

\* C2: at most one microphone stream is acquired and not yet released.
AtMostOneLiveStream == Cardinality(LiveStreams) <= 1

InFlightEntries == {req.entry : req \in inflight}
OwnTranslation(e) == Translated(e.original, e.lang)

\* C3: an entry whose translation is in flight is still unset, and an entry
\* whose translation has completed holds its own translation (or, if its own
\* request failed, the placeholder), whatever the order of the completions:
\* no completion writes an entry other than the one it was issued for.
CompletionsCorrelated ==
    \A k \in 1..Len(log) :
        IF k \in InFlightEntries
        THEN log[k].translated = NullText
        ELSE log[k].translated \in {OwnTranslation(log[k]), FailedText}

\* C4: the ids of the transcript are strictly increasing in creation order
\* (hence unique).
IdsStrictlyIncreasing ==
    \A i, j \in 1..Len(log) : i < j => log[i].id < log[j].id

Originals(lg) == [k \in 1..Len(lg) |-> lg[k].original]

\* C5 as claimed: every result event that carries a final result, delivered
\* while Listening, makes the transcript one entry longer.
EveryFinalAppends ==
    [][(nFinal' = nFinal + 1 /\ isListening) => Len(log') = Len(log) + 1]_vars

\* C5 amended: a result event whose final text is not blank after trimming,
\* delivered while the translation client is configured, appends exactly one
\* entry holding that text at the end of the transcript; a blank final text,
\* or a missing client, leaves the transcript as it is; and no other step
\* adds, removes or reorders entries, whatever completes or fails.
NonBlankFinalAppends ==
    [][/\ \A ev \in SpeechEvents(Words[Len(log) + 1]), t \in 0..MaxClock :
             (nFinal' = nFinal + 1 /\ EngineResult(ev, t, FinalsBounds)) =>
                IF Trim(FinalTranscript(ev)) # <<>> /\ aiReady
                THEN Originals(log') = Append(Originals(log), Trim(FinalTranscript(ev)))
                ELSE log' = log
       /\ nFinal' = nFinal => Originals(log') = Originals(log)]_vars

\* C5 witness: of three final results delivered, one was dropped and two
\* are in the transcript in their order of arrival, the second one
\* translated before the first.
OutOfOrderTranscript ==
    /\ isListening
    /\ nFinal = 3
    /\ Originals(log) = <<<<"A">>, <<"B">>>>
    /\ log[1].translated = NullText
    /\ log[2].translated # NullText

FatalKinds == ErrorKinds \ {"no-speech"}

\* C6: a recognition error other than "no-speech" that arrives while
\* Listening makes the orchestrator Idle, stops exactly one recorder (the
\* session's) and sets the one message of that error; the session-end event
\* that follows leaves it Idle, stops no further recorder and leaves the
\* message as it is.
FatalErrorStopsOnce ==
    [][/\ \A kind \in FatalKinds :
             (EngineError(kind) /\ isListening) =>
                /\ ~isListening'
                /\ error' = RecognitionErrorMsg(kind)
                /\ Cardinality(pendingOnStop' \ pendingOnStop) = 1
       /\ (EngineEnd /\ recState = "ended" /\ ~isListening) =>
             /\ ~isListening'
             /\ error' = error
             /\ pendingOnStop' = pendingOnStop
             /\ recorderState' = recorderState]_vars

\* C7: in Continuous mode, while Listening, a session end that the user did
\* not ask for restarts recognition with the same language, leaves listening
\* true and leaves the recorder, the stream and the recordings alone.
ContinuousAutoRestart ==
    [][(EngineEnd /\ isListening /\ mode = "continuous"
              /\ recState \in {"running", "ended"}) =>
          /\ recState' = "running"
          /\ recLang' = recLang
          /\ isListening'
          /\ recorderState' = recorderState
          /\ pendingOnStop' = pendingOnStop
          /\ trackStops' = trackStops
          /\ recordings' = recordings]_vars

\* C8: a click on the mic button while its handler sees listening = true
\* leaves the orchestrator Idle with the intentional-stop flag back to
\* false, and the session end delivered for that stop never restarts
\* recognition, in either mode: the engine is idle after it and the
\* orchestrator still Idle.
UserStopNeverRestarts ==
    [][/\ (HandleListenToggle(SessionBounds) /\ rendered.isListening) =>
             /\ ~isListening'
             /\ ~intentionalStop'
             /\ recState' # "running"
       /\ (EngineEnd /\ recState = "stopping") =>
             /\ recState' = "idle"
             /\ ~isListening']_vars

\* C8 witness: in Continuous mode the user has stopped a running session and
\* its session end is still to come, with the flag already reset.
UserStopPendingEnd ==
    /\ mode = "continuous"
    /\ recState = "stopping"
    /\ ~isListening
    /\ ~intentionalStop
    /\ handlers.mode = "continuous"

\* C9: with the mode left at TurnTaking and the language button untouched,
\* currentLang is ja-JP after an even number of successful translations and
\* zh-TW after an odd number, in every reachable state (so a failed
\* translation, which leaves the count alone, leaves currentLang alone).
TurnTakingParity ==
    currentLang = IF nSuccess % 2 = 0 THEN "ja-JP" ELSE "zh-TW"

\* C9 witness: two translations that were in flight together have both
\* succeeded, after one that failed, and the language is back at ja-JP.
TwoSuccessfulTurns ==
    /\ nSuccess = 2
    /\ currentLang = "ja-JP"
    /\ inflight = {}

\* C10: a failed translation changes nothing but the translated text of its
\* own entry: not listening, not the engine, not the recorder, and not the
\* global error message.
FailureScopedToEntry ==
    [][\A req \in Requests :
          TranslationReject(req) =>
             /\ error' = error
             /\ isListening' = isListening
             /\ recState' = recState
             /\ recorderState' = recorderState
             /\ \A k \in 1..Len(log) : k # req.entry => log'[k] = log[k]
             /\ log'[req.entry].translated = FailedText]_vars

\* a step in which stopListeningAndRecording is invoked from the session-end
\* listener or from the mic button
StopInvoked ==
    \/ EngineEnd /\ recState' # "running"
    \/ HandleListenToggle(SessionBounds) /\ rendered.isListening

\* C11: stopListeningAndRecording invoked while listening is already false
\* (the stop of the session-end listener after a user stop or a fatal error
\* included) stops no recorder, so that no Recording follows from it, sets
\* no error, appends no Recording and leaves listening false.
StopIdempotent ==
    [][(StopInvoked /\ ~isListening) =>
          /\ ~isListening'
          /\ error' = error
          /\ recordings' = recordings
          /\ recorderState' = recorderState
          /\ pendingOnStop' = pendingOnStop]_vars

\* C12: an entry enters the transcript with its translated text unset, and
\* a translated text that is set (a translation or the placeholder) is
\* never changed by a later step, whatever completes or fails afterwards.
TranslatedWrittenOnce ==
    [][/\ \A k \in 1..Len(log') :
             k > Len(log) => log'[k].translated = NullText
       /\ \A k \in 1..Len(log) :
             log[k].translated # NullText =>
                log'[k].translated = log[k].translated]_vars

\* C13: at the step that makes the orchestrator Listening, the language the
\* recognition engine is started with is currentLang, and every entry
\* appended to the transcript carries the recognition language as its
\* source language.
RecognitionLangIsCurrent ==
    [][/\ (~isListening /\ isListening') => recLang' = currentLang'
       /\ Len(log') = Len(log) + 1 => log'[Len(log')].lang = recLang]_vars

\* C14: currentLang changes only in a click on the language button (which
\* the button allows while the render shows listening = false), or in the
\* successful completion of a translation while mode is TurnTaking; so a
\* translation that completes while mode is Continuous leaves currentLang
\* as it is, whenever the mode was switched.
LangChangesOnlyByToggleOrTurn ==
    [][currentLang' # currentLang =>
          \/ ClickLanguageToggle
          \/ /\ \E req \in Requests : TranslationResolve(req)
             /\ mode = "turn-taking"]_vars

\* a step in which a start fails: the acquisition is rejected, the recorder's
\* constructor or its start() throws, or recognition.start() throws
FailedStart ==
    \/ \E lang \in Language : GetUserMediaReject(lang)
    \/ \E lang \in Language, fail \in {"constructor", "start"} :
          GetUserMediaResolve(lang, fail)
    \/ /\ \E lang \in Language : GetUserMediaResolve(lang, "none")
       /\ RecognitionStartThrows(recState)

\* C15: a start from Idle that fails at any of its steps leaves the
\* orchestrator Idle with the microphone error message set, leaves no stream
\* acquired that was not acquired before, and leaves no recorder recording
\* that was not recording before.
FailedStartLeavesNothing ==
    [][(FailedStart /\ ~isListening) =>
          /\ ~isListening'
          /\ error' = MicErrorMsg
          /\ \A s \in 1..nAcquired' :
                trackStops'[s] = 0 => (s <= nAcquired /\ trackStops[s] = 0)
          /\ \A s \in StreamIds :
                recorderState'[s] = "recording" => recorderState[s] = "recording"]_vars

\* C16: a "no-speech" error delivered while Listening leaves listening, the
\* error message, the recorders, the streams, the transcript, the recordings
\* and currentLang as they are; an error of any other kind delivered while
\* Listening sets the message of that kind and ends the session: listening
\* is false and the engine is not left running.
NoSpeechSwallowed ==
    [][/\ (EngineError("no-speech") /\ isListening) =>
             /\ isListening'
             /\ error' = error
             /\ UNCHANGED <<mediaRecorderRef, recorderState, pendingOnStop,
                            pendingMeta, streamRef, trackStops, nAcquired>>
             /\ UNCHANGED <<log, recordings, currentLang>>
       /\ \A kind \in FatalKinds :
             (EngineError(kind) /\ isListening) =>
                /\ error' = RecognitionErrorMsg(kind)
                /\ ~isListening'
                /\ recState' # "running"]_vars

\* C16 witness: a "no-speech" error has ended the engine's session while
\* Listening (a fatal error would have left listening false): the recorder
\* still records, the stream is live and the session-end event is to come.
NoSpeechDelivered ==
    /\ isListening
    /\ recState = "ended"
    /\ mediaRecorderRef # 0
    /\ recorderState[mediaRecorderRef] = "recording"
    /\ Len(log) = 1

\* C17: in TurnTaking mode, a session end that the user did not ask for,
\* delivered while Listening, ends the session: listening is false, the
\* engine is idle (not restarted), one recorder is stopped (its onstop
\* makes the Recording) and none is left recording, and the error message
\* is left as it is.
TurnTakingEndStops ==
    [][(EngineEnd /\ isListening /\ mode = "turn-taking"
              /\ recState \in {"running", "ended"}) =>
          /\ ~isListening'
          /\ recState' = "idle"
          /\ error' = error
          /\ Cardinality(pendingOnStop' \ pendingOnStop) = 1
          /\ \A s \in StreamIds : recorderState'[s] # "recording"]_vars

\* C18: every entry of the transcript eventually holds a terminal translated
\* text (a translation or the placeholder), given that every translation
\* request eventually resolves or rejects; the session may stop or fail
\* while the request is in flight.
EveryEntryCompletes ==
    \A k \in 1..MaxLog :
        (Len(log) >= k) ~> (Len(log) >= k /\ log[k].translated # NullText)

\* C18 witness: the session has ended on a fatal error while the translation
\* of the second entry is still in flight, the first one having failed.
StoppedWhileInFlight ==
    /\ ~isListening
    /\ recState = "idle"
    /\ Len(log) = 2
    /\ log[1].translated = FailedText
    /\ log[2].translated = NullText
    /\ InFlightEntries = {2}
    /\ error = RecognitionErrorMsg("network")

\* C19: isTranslating is true exactly in the states in which a translation
\* request is in flight.
TranslatingIffInFlight == isTranslating <=> (inflight # {})

\* C20: in no reachable state is a recognition session running (started or
\* restarted, and not asked to stop) while listening is false.
ListeningAgreesWithEngine == recState = "running" => isListening

\* the sessions, the microphone and the recorder: up to MaxStarts streams,
\* with a short transcript and no final result that is dropped
SpecSession == Init /\ [][Next(SessionBounds)]_vars

\* the transcript and its translations: up to MaxLog entries, with few streams
\* and no final result that is dropped
SpecTranscript == Init /\ [][Next(TranscriptBounds)]_vars

\* the transcript with the final results that handleTranslation drops
SpecFinals == Init /\ [][Next(FinalsBounds)]_vars

\* TurnTaking mode with no manual language toggle: the user never touches
\* the language button or the mode switch
SpecTurnTaking == Init /\ [][NextTurnTaking(TurnTakingBounds)]_vars

\* every translation request eventually resolves or rejects (the promise of
\* line 183 settles); nothing else is assumed to happen
SpecCompletion ==
    /\ Init
    /\ [][NextTurnTaking(CompletionBounds)]_vars
    /\ \A req \in Requests :
          WF_vars(TranslationResolve(req) \/ TranslationReject(req))
====
